---- MODULE Spec2Model ----
(***************************************************************************)
(* Model of upgrade_viz.py: the LogParser (line-by-line reconstruction of  *)
(* gateway upgrade events), calculate_upgrade_stats, the geometry computed *)
(* by SVGGanttChart.generate_chart, and the control flow of main().        *)
(*                                                                         *)
(* Time.  A datetime is modelled as an integer number of ticks since the   *)
(* midnight of the log's day, TicksPerSecond ticks to the second.  A       *)
(* timedelta is a difference of ticks and total_seconds() is that          *)
(* difference divided by TicksPerSecond.                                   *)
(*                                                                         *)
(* Floats.  A float is modelled as an exact rational <<num, den>> with     *)
(* den > 0.                                                                *)
(*                                                                         *)
(* Text.  A log line is modelled by what the regular expressions of        *)
(* LogParser.__init__ find in it: the shape of its leading timestamp and,  *)
(* for each of the four marker patterns, whether the pattern matches and   *)
(* what its groups capture.  A captured text is a sequence of tokens.      *)
(***************************************************************************)
EXTENDS Integers, Sequences, FiniteSets, TLC

\* ---------------------------------------------------------------- bounds
MaxTime == 1
TicksPerSecond == 10

\* ------------------------------------------------------------ vocabulary
None == -1
Times == 0..MaxTime
Units == {"gw-1", "gw-2"}
SP == " "
\* group 2 of upgrade_start_pattern, before .strip()
StartTexts == {<<SP, "8.1", SP>>}
CurrVers == {"9.0"}
Heads == {"no_timestamp", "invalid", "valid"}

NoRest == <<>>
NoGateway == ""
NoVer == ""

\* What the patterns find in a line.  A pattern that does not match captures
\* nothing: gateway is group 1 of the first of upgrade_start_pattern,
\* upgrade_installing_pattern, upgrade_complete_pattern that matches, rest is
\* group 2 of upgrade_start_pattern, curr_ver group 2 of
\* upgrade_complete_pattern.
Line(h, t, r, s, i, c, g, x, v) ==
    [head |-> h, ts |-> t, reset |-> r, start |-> s, installing |-> i,
     complete |-> c, gateway |-> g, rest |-> x, curr_ver |-> v]

BlankLine ==
    Line("blank", None, FALSE, FALSE, FALSE, FALSE, NoGateway, NoRest, NoVer)

Lines ==
    {BlankLine} \cup
    { Line(h, t, r, s, i, c, g, x, v) :
         h \in Heads, t \in Times \cup {None}, r \in BOOLEAN, s \in BOOLEAN,
         i \in BOOLEAN, c \in BOOLEAN, g \in Units \cup {NoGateway},
         x \in StartTexts \cup {NoRest}, v \in CurrVers \cup {NoVer} }

\* the lines a text stream can hold: only a parseable timestamp has a value,
\* only a matching pattern has captures; the lines without a parseable
\* timestamp are enumerated for one gateway
InputLines ==
    { l \in Lines :
        /\ (l.head = "valid") <=> (l.ts # None)
        /\ (l.head # "valid") => (l.gateway \in {NoGateway, "gw-1"})
        /\ (l.start \/ l.installing \/ l.complete) <=> (l.gateway # NoGateway)
        /\ l.start <=> (l.rest # NoRest)
        /\ l.complete <=> (l.curr_ver # NoVer) }

\* ------------------------------------------------------- python builtins
RECURSIVE lstrip(_)
lstrip(s) == IF s # <<>> /\ Head(s) = SP THEN lstrip(Tail(s)) ELSE s

RECURSIVE rstrip(_)
rstrip(s) ==
    IF s # <<>> /\ s[Len(s)] = SP THEN rstrip(SubSeq(s, 1, Len(s) - 1)) ELSE s

strip(s) == rstrip(lstrip(s))

\* dict: insertion-ordered sequence of [key, value]
Keys(d) == { d[i].key : i \in DOMAIN d }
Has(d, k) == k \in Keys(d)
Get(d, k) == d[CHOOSE i \in DOMAIN d : d[i].key = k].value
\* Put, but an assignment to a present key moves the key to the end
Put_move_to_end(d, k, v) ==
    Append(SelectSeq(d, LAMBDA e : e.key # k), [key |-> k, value |-> v])

Put(d, k, v) ==
    IF Has(d, k)
    THEN [i \in DOMAIN d |-> IF d[i].key = k THEN [key |-> k, value |-> v] ELSE d[i]]
    ELSE Append(d, [key |-> k, value |-> v])

Values(d) == [i \in DOMAIN d |-> d[i].value]

\* float: exact rational <<num, den>>, den > 0, in lowest terms;
\* float('inf') is <<1, 0>>
RECURSIVE GCD(_, _)
GCD(a, b) == IF b = 0 THEN a ELSE GCD(b, a % b)
Abs(a) == IF a < 0 THEN -a ELSE a
Rat(n, d) ==
    LET g == GCD(Abs(n), Abs(d))
        sg == IF d < 0 THEN -1 ELSE 1
    IN <<(sg * n) \div g, (sg * d) \div g>>
FromInt(n) == <<n, 1>>
Inf == <<1, 0>>
RAdd(a, b) == Rat(a[1] * b[2] + b[1] * a[2], a[2] * b[2])
RSub(a, b) == Rat(a[1] * b[2] - b[1] * a[2], a[2] * b[2])
RMul(a, b) == Rat(a[1] * b[1], a[2] * b[2])
RDiv(a, b) == Rat(a[1] * b[2], a[2] * b[1])
RLeq(a, b) == a[1] * b[2] <= b[1] * a[2]
RLess(a, b) == a[1] * b[2] < b[1] * a[2]
RMax(a, b) == IF RLess(a, b) THEN b ELSE a
RMin(a, b) == IF RLess(b, a) THEN b ELSE a
IMax(a, b) == IF a < b THEN b ELSE a
IMin(a, b) == IF b < a THEN b ELSE a

\* timedelta.total_seconds() of a difference of ticks
total_seconds(td) == Rat(td, TicksPerSecond)
\* datetime.second
second_of(t) == (t \div TicksPerSecond) % 60
\* datetime.replace(second=s): ValueError unless s is in 0..59
replace_second(t, s) ==
    IF s \in 0..59
    THEN [raised |-> FALSE,
          value |-> t - second_of(t) * TicksPerSecond + s * TicksPerSecond]
    ELSE [raised |-> TRUE, value |-> t]

\* min(), max() of a non-empty sequence of integers
SeqMin(s) == CHOOSE m \in {s[i] : i \in DOMAIN s} : \A i \in DOMAIN s : m <= s[i]
SeqMax(s) == CHOOSE m \in {s[i] : i \in DOMAIN s} : \A i \in DOMAIN s : s[i] <= m

\* sorted(values, key=start_time): stable
RECURSIVE insert_sorted(_, _)
insert_sorted(s, e) ==
    IF s = <<>> THEN <<e>>
    ELSE IF s[Len(s)].start_time <= e.start_time THEN Append(s, e)
    ELSE Append(insert_sorted(SubSeq(s, 1, Len(s) - 1), e), s[Len(s)])

\* the values in dict order, not sorted
sorted_by_start_time_unsorted(s) == s

RECURSIVE sorted_by_start_time(_)
sorted_by_start_time(s) ==
    IF s = <<>> THEN <<>>
    ELSE insert_sorted(sorted_by_start_time(SubSeq(s, 1, Len(s) - 1)), s[Len(s)])

\* ---------------------------------------------------------- UpgradeEvent
\* UpgradeEvent with the status argument dropped for the dataclass default
UpgradeEvent_default_status(gateway_name, start_time, end_time, version_info, status) ==
    [gateway_name |-> gateway_name, start_time |-> start_time,
     end_time |-> end_time, version_info |-> version_info,
     status |-> "in_progress"]

UpgradeEvent(gateway_name, start_time, end_time, version_info, status) ==
    [gateway_name |-> gateway_name, start_time |-> start_time,
     end_time |-> end_time, version_info |-> version_info, status |-> status]

\* ------------------------------------------------------------- LogParser
\* parse_timestamp with the pattern searched anywhere in the line
parse_timestamp_unanchored(line) ==
    IF line.head = "valid" THEN [raised |-> FALSE, value |-> line.ts]
    ELSE IF line.head = "invalid" THEN [raised |-> TRUE, value |-> None]
    ELSE IF line.head = "no_timestamp" THEN [raised |-> FALSE, value |-> 0]
    ELSE [raised |-> FALSE, value |-> None]

parse_timestamp(line) ==
    IF line.head = "valid" THEN [raised |-> FALSE, value |-> line.ts]
    ELSE IF line.head = "invalid" THEN [raised |-> TRUE, value |-> None]
    ELSE [raised |-> FALSE, value |-> None]

\* reset_branch without self.upgrades.clear()
reset_branch_no_clear(ups, ost, timestamp) ==
    [upgrades |-> ups, overall_start_time |-> timestamp, branch |-> "reset"]

reset_branch(ups, ost, timestamp) ==
    [upgrades |-> <<>>, overall_start_time |-> timestamp, branch |-> "reset"]

\* start_branch assigning self.upgrades a dict that holds the new record only
start_branch_rebuild(ups, ost, timestamp, gateway_name, rest) ==
    [upgrades |-> Put(<<>>, gateway_name,
                      UpgradeEvent(gateway_name, timestamp, None, strip(rest),
                                   "in_progress")),
     overall_start_time |-> ost, branch |-> "start"]

\* start_branch guarded like installing_branch: an existing record is kept
start_branch_first_wins(ups, ost, timestamp, gateway_name, rest) ==
    [upgrades |-> IF Has(ups, gateway_name) THEN ups
                  ELSE Put(ups, gateway_name,
                           UpgradeEvent(gateway_name, timestamp, None,
                                        strip(rest), "in_progress")),
     overall_start_time |-> ost, branch |-> "start"]

start_branch(ups, ost, timestamp, gateway_name, rest) ==
    [upgrades |-> Put(ups, gateway_name,
                      UpgradeEvent(gateway_name, timestamp, None, strip(rest),
                                   "in_progress")),
     overall_start_time |-> ost, branch |-> "start"]

\* installing_branch without the `not in self.upgrades` guard
installing_branch_unguarded(ups, ost, timestamp, gateway_name) ==
    [upgrades |-> Put(ups, gateway_name,
                      UpgradeEvent(gateway_name, timestamp, None,
                                   <<"(detected from installing status)">>,
                                   "in_progress")),
     overall_start_time |-> ost, branch |-> "installing_new"]

\* installing_branch, but an existing record gets start_time = timestamp
installing_branch_resets_start(ups, ost, timestamp, gateway_name) ==
    IF ~Has(ups, gateway_name)
    THEN [upgrades |-> Put(ups, gateway_name,
                           UpgradeEvent(gateway_name, timestamp, None,
                                        <<"(detected from installing status)">>,
                                        "in_progress")),
          overall_start_time |-> ost, branch |-> "installing_new"]
    ELSE [upgrades |-> Put(ups, gateway_name,
                           [Get(ups, gateway_name) EXCEPT !.start_time = timestamp]),
          overall_start_time |-> ost, branch |-> "installing_seen"]

installing_branch(ups, ost, timestamp, gateway_name) ==
    IF ~Has(ups, gateway_name)
    THEN [upgrades |-> Put(ups, gateway_name,
                           UpgradeEvent(gateway_name, timestamp, None,
                                        <<"(detected from installing status)">>,
                                        "in_progress")),
          overall_start_time |-> ost, branch |-> "installing_new"]
    ELSE [upgrades |-> ups, overall_start_time |-> ost, branch |-> "installing_seen"]

\* complete_branch, but a duplicate completion updates the record again
complete_branch_last_wins(ups, ost, timestamp, gateway_name, curr_version) ==
    IF Has(ups, gateway_name)
    THEN [upgrades |-> Put(ups, gateway_name,
              [Get(ups, gateway_name) EXCEPT
                  !.end_time = timestamp,
                  !.status = "complete",
                  !.version_info = @ \o <<"->", curr_version>>]),
          overall_start_time |-> ost,
          branch |-> IF Get(ups, gateway_name).status # "complete"
                     THEN "complete_update" ELSE "complete_duplicate"]
    ELSE [upgrades |-> Put(ups, gateway_name,
                           UpgradeEvent(gateway_name, timestamp, timestamp,
                                        <<"(retroactive)", "->", curr_version>>,
                                        "complete")),
          overall_start_time |-> ost, branch |-> "complete_retroactive"]

\* complete_branch, but the retroactive record is built with the defaults of
\* UpgradeEvent for end_time and status
complete_branch_retro_open(ups, ost, timestamp, gateway_name, curr_version) ==
    IF Has(ups, gateway_name)
    THEN IF Get(ups, gateway_name).status # "complete"
         THEN [upgrades |-> Put(ups, gateway_name,
                   [Get(ups, gateway_name) EXCEPT
                       !.end_time = timestamp,
                       !.status = "complete",
                       !.version_info = @ \o <<"->", curr_version>>]),
               overall_start_time |-> ost, branch |-> "complete_update"]
         ELSE [upgrades |-> ups, overall_start_time |-> ost,
               branch |-> "complete_duplicate"]
    ELSE [upgrades |-> Put(ups, gateway_name,
                           UpgradeEvent(gateway_name, timestamp, None,
                                        <<"(retroactive)", "->", curr_version>>,
                                        "in_progress")),
          overall_start_time |-> ost, branch |-> "complete_retroactive"]

\* complete_branch, but the update of an open record also stamps start_time
complete_branch_restamp(ups, ost, timestamp, gateway_name, curr_version) ==
    IF Has(ups, gateway_name)
    THEN IF Get(ups, gateway_name).status # "complete"
         THEN [upgrades |-> Put(ups, gateway_name,
                   [Get(ups, gateway_name) EXCEPT
                       !.start_time = timestamp,
                       !.end_time = timestamp,
                       !.status = "complete",
                       !.version_info = @ \o <<"->", curr_version>>]),
               overall_start_time |-> ost, branch |-> "complete_update"]
         ELSE [upgrades |-> ups, overall_start_time |-> ost,
               branch |-> "complete_duplicate"]
    ELSE [upgrades |-> Put(ups, gateway_name,
                           UpgradeEvent(gateway_name, timestamp, timestamp,
                                        <<"(retroactive)", "->", curr_version>>,
                                        "complete")),
          overall_start_time |-> ost, branch |-> "complete_retroactive"]

complete_branch(ups, ost, timestamp, gateway_name, curr_version) ==
    IF Has(ups, gateway_name)
    THEN IF Get(ups, gateway_name).status # "complete"
         THEN [upgrades |-> Put(ups, gateway_name,
                   [Get(ups, gateway_name) EXCEPT
                       !.end_time = timestamp,
                       !.status = "complete",
                       !.version_info = @ \o <<"->", curr_version>>]),
               overall_start_time |-> ost, branch |-> "complete_update"]
         ELSE [upgrades |-> ups, overall_start_time |-> ost,
               branch |-> "complete_duplicate"]
    ELSE [upgrades |-> Put(ups, gateway_name,
                           UpgradeEvent(gateway_name, timestamp, timestamp,
                                        <<"(retroactive)", "->", curr_version>>,
                                        "complete")),
          overall_start_time |-> ost, branch |-> "complete_retroactive"]

skip(ups, ost, why) ==
    [upgrades |-> ups, overall_start_time |-> ost, branch |-> why]

\* parse_line with the upgrade_start_pattern test moved before the
\* reset_pattern test
parse_line_start_first(ups, ost, line) ==
    IF line.head = "blank" THEN skip(ups, ost, "blank") @@ [raised |-> FALSE]
    ELSE LET timestamp == parse_timestamp(line) IN
      IF timestamp.raised THEN skip(ups, ost, "ValueError") @@ [raised |-> TRUE]
      ELSE [raised |-> FALSE] @@
        (IF timestamp.value = None THEN skip(ups, ost, "no_timestamp")
         ELSE IF line.start
              THEN start_branch(ups, ost, timestamp.value, line.gateway, line.rest)
         ELSE IF line.reset THEN reset_branch(ups, ost, timestamp.value)
         ELSE IF line.installing
              THEN installing_branch(ups, ost, timestamp.value, line.gateway)
         ELSE IF line.complete
              THEN complete_branch(ups, ost, timestamp.value, line.gateway,
                                   line.curr_ver)
         ELSE skip(ups, ost, "unmatched"))

\* parse_line: the state after the call, the branch that returned, and
\* whether the call raised instead of returning
parse_line(ups, ost, line) ==
    IF line.head = "blank" THEN skip(ups, ost, "blank") @@ [raised |-> FALSE]
    ELSE LET timestamp == parse_timestamp(line) IN
      IF timestamp.raised THEN skip(ups, ost, "ValueError") @@ [raised |-> TRUE]
      ELSE [raised |-> FALSE] @@
        (IF timestamp.value = None THEN skip(ups, ost, "no_timestamp")
         ELSE IF line.reset THEN reset_branch(ups, ost, timestamp.value)
         ELSE IF line.start
              THEN start_branch(ups, ost, timestamp.value, line.gateway, line.rest)
         ELSE IF line.installing
              THEN installing_branch(ups, ost, timestamp.value, line.gateway)
         ELSE IF line.complete
              THEN complete_branch(ups, ost, timestamp.value, line.gateway,
                                   line.curr_ver)
         ELSE skip(ups, ost, "unmatched"))

\* ------------------------------------------------ calculate_upgrade_stats
\* SelectCompleted without the `end_time is not None` filter
SelectCompleted_unfiltered(ups) == ups

SelectCompleted(ups) == SelectSeq(ups, LAMBDA u : u.end_time # None)

duration_minutes(u) ==
    RDiv(total_seconds(u.end_time - u.start_time), FromInt(60))

buckets ==
    <<FromInt(0), FromInt(2), FromInt(5), FromInt(10), FromInt(15), FromInt(30),
      FromInt(60), Inf>>
bucket_labels == <<"<2m", "2-5m", "5-10m", "10-15m", "15-30m", "30-60m", ">60m">>

\* the index at which the inner loop over buckets[1:] breaks
bucket_of(duration) ==
    CHOOSE i \in DOMAIN bucket_labels :
        /\ RLeq(duration, buckets[i + 1])
        /\ \A j \in 1..(i - 1) : ~RLeq(duration, buckets[j + 1])

\* sum(durations); exact addition is associative, the halves keep the
\* evaluation shallow
RECURSIVE RSum(_)
RSum(s) ==
    IF s = <<>> THEN FromInt(0)
    ELSE IF Len(s) = 1 THEN s[1]
    ELSE LET h == Len(s) \div 2
         IN RAdd(RSum(SubSeq(s, 1, h)), RSum(SubSeq(s, h + 1, Len(s))))

\* min(durations), max(durations)
RSeqMin(s) == CHOOSE m \in {s[i] : i \in DOMAIN s} : \A i \in DOMAIN s : RLeq(m, s[i])
RSeqMax(s) == CHOOSE m \in {s[i] : i \in DOMAIN s} : \A i \in DOMAIN s : RLeq(s[i], m)
\* min(pairs, key=duration), max(pairs, key=duration): the first such pair
FirstAt(s, m) == CHOOSE i \in DOMAIN s : s[i] = m /\ \A j \in 1..(i - 1) : s[j] # m

\* What the function reports; the standard deviation (a square root) is left
\* out.  The input list is not assigned to.
calculate_upgrade_stats(ups) ==
    LET completed_upgrades == SelectCompleted(ups) IN
    IF completed_upgrades = <<>>
    THEN [no_data |-> TRUE]
    ELSE
      LET durations ==
              [i \in DOMAIN completed_upgrades |->
                  duration_minutes(completed_upgrades[i])]
          min_duration == RSeqMin(durations)
          max_duration == RSeqMax(durations)
      IN [no_data |-> FALSE,
          total |-> Len(ups),
          completed |-> Len(completed_upgrades),
          in_progress |-> Len(ups) - Len(completed_upgrades),
          min_duration |-> min_duration,
          max_duration |-> max_duration,
          avg_duration |-> RDiv(RSum(durations), FromInt(Len(durations))),
          min_gateway |->
              completed_upgrades[FirstAt(durations, min_duration)].gateway_name,
          max_gateway |->
              completed_upgrades[FirstAt(durations, max_duration)].gateway_name,
          bucket_counts |->
              [i \in DOMAIN bucket_labels |->
                  Cardinality({k \in DOMAIN durations : bucket_of(durations[k]) = i})],
          percentage |->
              [i \in DOMAIN bucket_labels |->
                  RMul(Rat(Cardinality({k \in DOMAIN durations :
                                            bucket_of(durations[k]) = i}),
                           Len(durations)),
                       FromInt(100))]]

\* --------------------------------------------------------- SVGGanttChart
base_width == 1200
base_height == 800
margin_top == 60
margin_right == 50
margin_bottom == 80
margin_left == 200
min_bar_height == 20
min_spacing == 2
max_bar_height == 25
default_duration == 3600

\* "Calculate time range": min_time, max_time, or the ValueError of replace()
time_range(ups) ==
    LET start_times == [i \in DOMAIN ups |-> ups[i].start_time]
        completed == SelectCompleted(ups)
        end_times == [i \in DOMAIN completed |-> completed[i].end_time]
    IN IF end_times = <<>>
       THEN LET min_time == SeqMin(start_times)
                max_time == SeqMax(start_times)
                time_span == max_time - min_time
            IN IF total_seconds(time_span) = FromInt(0)
               THEN LET r == replace_second(min_time, second_of(min_time) + 60)
                    IN [raised |-> r.raised, min_time |-> min_time,
                        max_time |-> r.value]
               ELSE [raised |-> FALSE, min_time |-> min_time, max_time |-> max_time]
       ELSE [raised |-> FALSE, min_time |-> SeqMin(start_times),
             max_time |-> SeqMax(end_times)]

\* total_duration_of with the default as a lower limit of the span
total_duration_of_at_least_default(min_time, max_time) ==
    LET total_duration == total_seconds(max_time - min_time) IN
    IF RLess(total_duration, FromInt(default_duration))
    THEN FromInt(default_duration)
    ELSE total_duration

total_duration_of(min_time, max_time) ==
    LET total_duration == total_seconds(max_time - min_time) IN
    IF total_duration = FromInt(0) THEN FromInt(default_duration)
    ELSE total_duration

x_pos_of(upgrade, min_time, total_duration, chart_width) ==
    LET start_offset == total_seconds(upgrade.start_time - min_time)
    IN RMul(RDiv(start_offset, total_duration), FromInt(chart_width))

\* bar_width_of with an open record drawn chart_width wide from its x
bar_width_of_full_width(upgrade, x_pos, total_duration, chart_width) ==
    IF upgrade.end_time # None
    THEN LET duration == total_seconds(upgrade.end_time - upgrade.start_time)
         IN RMax(FromInt(2),
                 RMul(RDiv(duration, total_duration), FromInt(chart_width)))
    ELSE FromInt(chart_width)

\* bar_width_of without the max(2, ...) floor
bar_width_of_no_floor(upgrade, x_pos, total_duration, chart_width) ==
    IF upgrade.end_time # None
    THEN LET duration == total_seconds(upgrade.end_time - upgrade.start_time)
         IN RMul(RDiv(duration, total_duration), FromInt(chart_width))
    ELSE RSub(FromInt(chart_width), x_pos)

bar_width_of(upgrade, x_pos, total_duration, chart_width) ==
    IF upgrade.end_time # None
    THEN LET duration == total_seconds(upgrade.end_time - upgrade.start_time)
         IN RMax(FromInt(2),
                 RMul(RDiv(duration, total_duration), FromInt(chart_width)))
    ELSE RSub(FromInt(chart_width), x_pos)

color_of(upgrade) == IF upgrade.end_time # None THEN "complete" ELSE "in_progress"

\* bar_height_of without the min(25, ...) cap
bar_height_of_no_cap(chart_height, n) ==
    IMax(min_bar_height, (chart_height \div n) - 2)

bar_height_of(chart_height, n) ==
    IMax(min_bar_height, IMin(max_bar_height, (chart_height \div n) - 2))

\* The geometry generate_chart computes (title, styles, axis, labels, tooltips
\* and script carry no geometry of the bars and are left out).
generate_chart(ups) ==
    IF ups = <<>> THEN [raised |-> FALSE, empty |-> TRUE]
    ELSE
      LET n == Len(ups)
          total_bar_space == n * (min_bar_height + min_spacing)
          height == IMax(base_height,
                         total_bar_space + margin_top + margin_bottom + 100)
          width == base_width
          chart_width == width - margin_left - margin_right
          chart_height == height - margin_top - margin_bottom
          range == time_range(ups)
      IN IF range.raised THEN [raised |-> TRUE, empty |-> FALSE]
         ELSE
           LET total_duration == total_duration_of(range.min_time, range.max_time)
               bar_height == bar_height_of(chart_height, n)
               y_step == RMax(FromInt(bar_height + min_spacing),
                              Rat(chart_height, n))
           IN [raised |-> FALSE, empty |-> FALSE,
               width |-> width, height |-> height,
               chart_width |-> chart_width, chart_height |-> chart_height,
               min_time |-> range.min_time, max_time |-> range.max_time,
               total_duration |-> total_duration,
               bar_height |-> bar_height, y_step |-> y_step,
               bars |->
                 [i \in 1..n |->
                    LET x_pos == x_pos_of(ups[i], range.min_time, total_duration,
                                          chart_width)
                    IN [gateway_name |-> ups[i].gateway_name,
                        x |-> x_pos,
                        y |-> RAdd(RMul(FromInt(i - 1), y_step),
                                   RDiv(RSub(y_step, FromInt(bar_height)),
                                        FromInt(2))),
                        width |-> bar_width_of(ups[i], x_pos, total_duration,
                                               chart_width),
                        height |-> bar_height,
                        color |-> color_of(ups[i])]]]

\* ----------------------------------------------------------------- state
VARIABLES
    upgrades,            \* LogParser.upgrades
    overall_start_time,  \* LogParser.overall_start_time
    last_branch,         \* the branch the latest parse_line call took
    created,             \* keys given a record since the latest reset
    first_added,         \* those keys, in the order they were first given one
    watermark,           \* timestamp of the latest line of a stream that is in
                         \* timestamp order (kept by IngestInOrder only)
    mutations,           \* per key: in-place updates of its present record
    pc,                  \* position in main()
    result,              \* main's local list `upgrades`
    report,              \* what calculate_upgrade_stats reported, if called
    stdout,              \* the charts printed to stdout
    exit_code            \* None while running

vars == <<upgrades, overall_start_time, last_branch, created, first_added, watermark,
          mutations, pc, result, report, stdout, exit_code>>

parser_vars ==
    <<upgrades, overall_start_time, last_branch, created, first_added, mutations>>

Init ==
    /\ upgrades = <<>>
    /\ overall_start_time = None
    /\ last_branch = "none"
    /\ created = {}
    /\ first_added = <<>>
    /\ watermark = None
    /\ mutations = <<>>
    /\ pc = "parse_logs"
    /\ result = <<>>
    /\ report = <<>>
    /\ stdout = <<>>
    /\ exit_code = None

\* one iteration of `for line in input_stream: self.parse_line(line)`; an
\* exception leaves parse_logs and main, and the interpreter exits with 1
IngestStep(line) ==
    /\ pc = "parse_logs"
    /\ \E r \in {parse_line(upgrades, overall_start_time, line)} :
        /\ upgrades' = r.upgrades
        /\ overall_start_time' = r.overall_start_time
        /\ last_branch' = r.branch
        /\ created' = IF r.branch = "reset" THEN {}
                      ELSE created \cup (Keys(r.upgrades) \ Keys(upgrades))
        /\ first_added' =
             IF r.branch = "reset" THEN <<>>
             ELSE IF Keys(r.upgrades) \subseteq Keys(upgrades) THEN first_added
             ELSE Append(first_added, line.gateway)
        /\ mutations' =
             [i \in DOMAIN r.upgrades |->
                IF r.upgrades[i].key # line.gateway THEN mutations[i]
                ELSE IF r.branch = "complete_update" THEN mutations[i] + 1
                ELSE IF r.branch \in {"start", "installing_new",
                                      "complete_retroactive"} THEN 0
                ELSE mutations[i]]
        /\ pc' = IF r.raised THEN "raised_in_parse_logs" ELSE "parse_logs"
        /\ exit_code' = IF r.raised THEN 1 ELSE None
    /\ UNCHANGED <<result, report, stdout>>

Ingest(line) == IngestStep(line) /\ UNCHANGED watermark

\* the same iteration, for a stream whose timestamps never decrease
IngestInOrder(line) ==
    /\ line.head = "valid" => watermark <= line.ts
    /\ IngestStep(line)
    /\ watermark' = IF line.head = "valid" THEN line.ts ELSE watermark

\* the input stream is exhausted: parse_logs returns the sorted list
Finalize ==
    /\ pc = "parse_logs"
    /\ result' = sorted_by_start_time(Values(upgrades))
    /\ pc' = "parsed"
    /\ UNCHANGED <<parser_vars, watermark, report, stdout, exit_code>>

\* main: `if not upgrades: ... sys.exit(1)`
ExitNoUpgrades ==
    /\ pc = "parsed"
    /\ result = <<>>
    /\ pc' = "exited"
    /\ exit_code' = 1
    /\ UNCHANGED <<parser_vars, watermark, result, report, stdout>>

\* main: calculate_upgrade_stats(upgrades)
Summarize ==
    /\ pc = "parsed"
    /\ result # <<>>
    /\ report' = <<calculate_upgrade_stats(result)>>
    /\ pc' = "chart"
    /\ UNCHANGED <<parser_vars, watermark, result, stdout, exit_code>>

\* main: generate_chart(upgrades) and print(svg_content); an exception
\* leaves main before the print, and the interpreter exits with 1
Chart ==
    /\ pc = "chart"
    /\ LET svg_content == generate_chart(result) IN
         IF svg_content.raised
         THEN /\ pc' = "raised_in_generate_chart"
              /\ exit_code' = 1
              /\ stdout' = stdout
         ELSE /\ pc' = "exited"
              /\ exit_code' = 0
              /\ stdout' = Append(stdout, svg_content)
    /\ UNCHANGED <<parser_vars, watermark, result, report>>

Next ==
    \/ \E line \in InputLines : Ingest(line)
    \/ Finalize
    \/ ExitNoUpgrades
    \/ Summarize
    \/ Chart

Spec == Init /\ [][Next]_vars

\* ------------------------------------- calculate_upgrade_stats on its own
\* The list handed to calculate_upgrade_stats, drawn from the lists parse_logs
\* returns for one or two gateways started at tick 0 and completed, or not,
\* around the bucket boundaries.
BoundaryMinutes == {2, 5, 10, 15, 30, 60}
SampleEnds ==
    { b * 60 * TicksPerSecond + d : b \in BoundaryMinutes, d \in {-1, 0, 1} }
SampleEvents(g) ==
    { UpgradeEvent(g, 0, None, <<"8.1">>, "in_progress") } \cup
    { UpgradeEvent(g, 0, e, <<"8.1", "->", "9.0">>, "complete") : e \in SampleEnds }
SampleLists ==
    { <<a>> : a \in SampleEvents("gw-1") } \cup
    { <<a, b>> : a \in SampleEvents("gw-1"), b \in SampleEvents("gw-2") }

InitStats ==
    /\ \E l \in SampleLists :
         /\ result = l
         /\ upgrades = [i \in DOMAIN l |-> [key |-> l[i].gateway_name, value |-> l[i]]]
         /\ created = { l[i].gateway_name : i \in DOMAIN l }
         /\ first_added = [i \in DOMAIN l |-> l[i].gateway_name]
         /\ watermark = None
         /\ mutations = [i \in DOMAIN l |-> IF l[i].end_time # None THEN 1 ELSE 0]
    /\ overall_start_time = None
    /\ last_branch = "unmatched"
    /\ pc = "parsed"
    /\ report = <<>>
    /\ stdout = <<>>
    /\ exit_code = None

NextStats == Summarize

SpecStats == InitStats /\ [][NextStats]_vars

\* ================================================================ claims
\* lines that match exactly one marker pattern after a parseable timestamp
OnlyReset(l) ==
    l.head = "valid" /\ l.reset /\ ~l.start /\ ~l.installing /\ ~l.complete
OnlyStart(l) ==
    l.head = "valid" /\ ~l.reset /\ l.start /\ ~l.installing /\ ~l.complete
OnlyInstalling(l) ==
    l.head = "valid" /\ ~l.reset /\ ~l.start /\ l.installing /\ ~l.complete
OnlyComplete(l) ==
    l.head = "valid" /\ ~l.reset /\ ~l.start /\ ~l.installing /\ l.complete
NoMarker(l) == ~l.reset /\ ~l.start /\ ~l.installing /\ ~l.complete

IsComplete(d, k) == Has(d, k) /\ Get(d, k).status = "complete"
SameParserState(r) ==
    ~r.raised /\ r.upgrades = upgrades /\ r.overall_start_time = overall_start_time

\* C1: in every reachable parser state, a completion line for a unit whose
\* record is already complete leaves upgrades and overall_start_time as they
\* are, and ingesting any completion line twice gives the state that
\* ingesting it once gives.
C1_DuplicateCompletionIdempotent ==
    pc = "parse_logs" => \A line \in InputLines :
        OnlyComplete(line) =>
            LET once == parse_line(upgrades, overall_start_time, line)
                twice == parse_line(once.upgrades, once.overall_start_time, line)
            IN /\ IsComplete(upgrades, line.gateway) => SameParserState(once)
               /\ ~once.raised /\ ~twice.raised
               /\ twice.upgrades = once.upgrades
               /\ twice.overall_start_time = once.overall_start_time

C1_Witness ==
    /\ last_branch = "complete_duplicate"
    /\ \E i \in DOMAIN upgrades : upgrades[i].value.status = "complete"

\* C2 as stated: once a record is complete, no step other than a reset
\* changes or removes its end_time or status.
C2_EndTimeNeverChangesWithoutReset ==
    [][ \A i \in DOMAIN upgrades :
          (upgrades[i].value.status = "complete" /\ last_branch' # "reset") =>
              /\ Has(upgrades', upgrades[i].key)
              /\ Get(upgrades', upgrades[i].key).end_time = upgrades[i].value.end_time
              /\ Get(upgrades', upgrades[i].key).status = "complete" ]_vars

\* C2 amended: once a record is complete, a step either is a reset, or is an
\* explicit start that leaves under the key a fresh in-progress record
\* without end_time, or leaves the record exactly as it is; and no record is
\* updated in place more than once after it was created.
C2_EndTimeChangesOnlyByResetOrRestart ==
    [][ /\ \A i \in DOMAIN upgrades :
             upgrades[i].value.status = "complete" =>
                 \/ last_branch' = "reset" /\ upgrades' = <<>>
                 \/ /\ last_branch' = "start"
                    /\ Has(upgrades', upgrades[i].key)
                    /\ Get(upgrades', upgrades[i].key).end_time = None
                    /\ Get(upgrades', upgrades[i].key).status = "in_progress"
                    /\ mutations'[i] = 0
                 \/ /\ Has(upgrades', upgrades[i].key)
                    /\ Get(upgrades', upgrades[i].key) = upgrades[i].value
        /\ \A i \in DOMAIN mutations' : mutations'[i] <= 1 ]_vars

C2_Witness ==
    /\ last_branch = "installing_seen"
    /\ \E i \in DOMAIN upgrades :
          upgrades[i].value.status = "complete" /\ mutations[i] = 1

\* C3: in every reachable parser state, a timestamped line containing the
\* reset phrase empties upgrades and sets overall_start_time to the line's
\* timestamp, and a start line ingested next leaves exactly one record.
C3_ResetCorrect ==
    pc = "parse_logs" =>
    /\ \A line \in InputLines :
          (line.head = "valid" /\ line.reset) =>
              LET r == parse_line(upgrades, overall_start_time, line)
              IN ~r.raised /\ r.upgrades = <<>>
                 /\ r.overall_start_time = line.ts
    /\ \A l1 \in InputLines : OnlyReset(l1) =>
          \A l2 \in InputLines : OnlyStart(l2) =>
              LET r1 == parse_line(upgrades, overall_start_time, l1)
                  r2 == parse_line(r1.upgrades, r1.overall_start_time, l2)
              IN Len(r2.upgrades) = 1 /\ r2.upgrades[1].key = l2.gateway

C3_Witness ==
    /\ last_branch = "reset"
    /\ upgrades = <<>>
    /\ overall_start_time \in Times

\* C4: in every reachable parser state, a completion line for a unit without
\* a record appends a record with start_time = end_time = the line's
\* timestamp, status complete and the note "(retroactive) -> <curr_ver>".
C4_Retroactive ==
    pc = "parse_logs" => \A line \in InputLines :
        (OnlyComplete(line) /\ ~Has(upgrades, line.gateway)) =>
            LET r == parse_line(upgrades, overall_start_time, line)
            IN /\ ~r.raised
               /\ r.overall_start_time = overall_start_time
               /\ r.upgrades =
                    Append(upgrades,
                           [key |-> line.gateway,
                            value |-> [gateway_name |-> line.gateway,
                                       start_time |-> line.ts,
                                       end_time |-> line.ts,
                                       version_info |->
                                           <<"(retroactive)", "->", line.curr_ver>>,
                                       status |-> "complete"]])

C4_Witness ==
    /\ last_branch = "complete_retroactive"
    /\ \E i \in DOMAIN upgrades :
          /\ upgrades[i].value.start_time = upgrades[i].value.end_time
          /\ upgrades[i].value.version_info[1] = "(retroactive)"

\* C5: in every reachable parser state, a line without a leading timestamp,
\* whatever markers it contains, and a timestamped line without any marker,
\* leave upgrades and overall_start_time as they are.
C5_SkippedLinesChangeNothing ==
    pc = "parse_logs" => \A line \in InputLines :
        (line.head \in {"blank", "no_timestamp"} \/ (line.head = "valid" /\ NoMarker(line)))
            => SameParserState(parse_line(upgrades, overall_start_time, line))

C5_Witness ==
    /\ last_branch \in {"no_timestamp", "unmatched"}
    /\ upgrades # <<>>
    /\ overall_start_time # None

\* C6: the list parse_logs returns is sorted ascending by start_time and holds
\* exactly one record for each key given a record since the latest reset.
Returned == pc \notin {"parse_logs", "raised_in_parse_logs"}
C6_FinalizeSortedAndComplete ==
    Returned =>
        /\ \A i \in 1..(Len(result) - 1) :
              result[i].start_time <= result[i + 1].start_time
        /\ { result[i].gateway_name : i \in DOMAIN result } = created
        /\ Len(result) = Cardinality(created)
        /\ \A i \in DOMAIN upgrades :
              \E j \in DOMAIN result : result[j] = upgrades[i].value

C6_Witness ==
    /\ Returned
    /\ Len(result) = 2
    /\ result[1].start_time < result[2].start_time
    /\ upgrades[1].value = result[2]

\* C7: the reconstructor never raises; a line whose timestamp has the right
\* shape but is no valid date is skipped and ingestion goes on.
C7_InvalidTimestampSkipped ==
    /\ pc # "raised_in_parse_logs"
    /\ last_branch # "ValueError"

\* C8: once the list is returned the run ends with exit code 1 and nothing
\* printed when the list is empty, with exit code 0 and one chart printed when
\* it is not, and no stage raises.
Ended == pc \in {"exited", "raised_in_generate_chart"}
C8_RunOutcome ==
    Ended =>
        /\ pc = "exited"
        /\ IF result = <<>>
           THEN exit_code = 1 /\ stdout = <<>>
           ELSE exit_code = 0 /\ Len(stdout) = 1

\* C9: a completed duration of exactly b minutes, b a bucket boundary, is
\* counted in the bucket that starts at b.
ExactlyAt(j) ==
    { i \in DOMAIN result :
        result[i].end_time # None /\ duration_minutes(result[i]) = buckets[j] }
C9_BoundaryCountedInUpperBucket ==
    (report # <<>> /\ ~report[1].no_data) =>
        \A j \in 2..7 : report[1].bucket_counts[j] >= Cardinality(ExactlyAt(j))

\* C10: every record with an end_time is drawn at least 2 wide; a single
\* record with start_time = end_time is drawn exactly 2 wide over the
\* 3600 second default span.
C10_MinimumBarWidth ==
    stdout # <<>> =>
        LET scene == stdout[1] IN
        /\ \A i \in DOMAIN result :
              result[i].end_time # None => RLeq(FromInt(2), scene.bars[i].width)
        /\ (Len(result) = 1 /\ result[1].end_time = result[1].start_time) =>
              /\ scene.bars[1].width = FromInt(2)
              /\ scene.total_duration = FromInt(3600)

C10_Witness ==
    /\ stdout # <<>>
    /\ Len(result) = 1
    /\ result[1].end_time = result[1].start_time
    /\ stdout[1].bars[1].width = FromInt(2)

\* ------------------------------------------------- the end-to-end example
\* The two lines of the example, 00:00:05.1 and 00:05:05.2, and the same two
\* markers for the other gateway and at each other's instant.
ExampleStartTime == 5 * TicksPerSecond + 1
ExampleEndTime == 305 * TicksPerSecond + 2
ExampleTimes == {ExampleStartTime, ExampleEndTime}
ExampleRest == <<SP, "8.1.0-1000.1500">>
ExampleCurrVer == "8.1.0-1000.1600"
ExampleStartLine ==
    Line("valid", ExampleStartTime, FALSE, TRUE, FALSE, FALSE, "gw-1",
         ExampleRest, NoVer)
ExampleCompleteLine ==
    Line("valid", ExampleEndTime, FALSE, FALSE, FALSE, TRUE, "gw-1", NoRest,
         ExampleCurrVer)
ExampleLines ==
    { Line("valid", t, FALSE, TRUE, FALSE, FALSE, g, ExampleRest, NoVer) :
        t \in ExampleTimes, g \in Units } \cup
    { Line("valid", t, FALSE, FALSE, FALSE, TRUE, g, NoRest, ExampleCurrVer) :
        t \in ExampleTimes, g \in Units } \cup
    { Line("valid", ExampleStartTime, TRUE, FALSE, FALSE, FALSE, NoGateway,
           NoRest, NoVer) }

NextExample ==
    \/ \E line \in ExampleLines : Ingest(line)
    \/ Finalize
    \/ ExitNoUpgrades
    \/ Summarize
    \/ Chart

SpecExample == Init /\ [][NextExample]_vars

\* what main computes from the two lines of the example, fed to a parser
\* that holds no record
ExampleOutcome ==
    LET r1 == parse_line(upgrades, overall_start_time, ExampleStartLine)
        r2 == parse_line(r1.upgrades, r1.overall_start_time, ExampleCompleteLine)
        list == sorted_by_start_time(Values(r2.upgrades))
    IN [raised |-> r1.raised \/ r2.raised,
        list |-> list,
        scene |-> generate_chart(list)]

ExampleShape(o) ==
    /\ ~o.raised
    /\ Len(o.list) = 1
    /\ o.list[1].gateway_name = "gw-1"
    /\ o.list[1].status = "complete"
    /\ ~o.scene.raised
    /\ Len(o.scene.bars) = 1
    /\ o.scene.bars[1].color = "complete"
    /\ o.scene.bars[1].x = FromInt(0)
    /\ o.scene.bars[1].width = FromInt(o.scene.chart_width)

ExampleSeconds(o) == total_seconds(o.list[1].end_time - o.list[1].start_time)

\* a run that ended after the two lines of the example were the ones that
\* made the only record
ExampleRan ==
    /\ pc = "exited"
    /\ created = {"gw-1"}
    /\ overall_start_time = None
    /\ last_branch = "complete_update"
    /\ result # <<>>
    /\ result[1].start_time = ExampleStartTime
    /\ result[1].end_time = ExampleEndTime
ExampleRun ==
    [raised |-> FALSE, list |-> result,
     scene |-> IF stdout = <<>> THEN [raised |-> TRUE] ELSE stdout[1]]

\* C11 as stated: the example yields one complete record for gw-1 whose
\* duration is 300.0 seconds = 5.0 minutes, drawn complete from x = 0 over the
\* full chart width.
C11_ExampleLasts300Seconds ==
    ExampleRan =>
        /\ ExampleShape(ExampleRun)
        /\ ExampleSeconds(ExampleRun) = FromInt(300)
        /\ duration_minutes(result[1]) = FromInt(5)

\* C11 amended: the same, with the duration the two timestamps give,
\* 300.1 seconds; both for the two lines fed to a parser that holds no record
\* and for the run that ingested them.
C11_ExampleLasts300Point1Seconds ==
    /\ (pc = "parse_logs" /\ upgrades = <<>>) =>
          /\ ExampleShape(ExampleOutcome)
          /\ ExampleSeconds(ExampleOutcome) = Rat(3001, 10)
          /\ duration_minutes(ExampleOutcome.list[1]) = Rat(3001, 600)
    /\ ExampleRan =>
          /\ ExampleShape(ExampleRun)
          /\ ExampleSeconds(ExampleRun) = Rat(3001, 10)
          /\ duration_minutes(result[1]) = Rat(3001, 600)

C11_Witness ==
    /\ ExampleRan
    /\ result[1].version_info = <<"8.1.0-1000.1500", "->", "8.1.0-1000.1600">>
    /\ Len(stdout) = 1
    /\ stdout[1].bars[1].width = FromInt(950)

\* C12: when the list has no completed record, calculate_upgrade_stats reports
\* "no data" and nothing else (no minimum, mean or percentage), also for the
\* empty list; otherwise it reports the statistics; and in every case the
\* list is afterwards still the list parse_logs returned.
NoneCompleted(list) == \A i \in DOMAIN list : list[i].end_time = None
C12_NoDataWithoutCompleted ==
    /\ calculate_upgrade_stats(<<>>) = [no_data |-> TRUE]
    /\ report # <<>> =>
          /\ report[1].no_data <=> NoneCompleted(result)
          /\ report[1].no_data => DOMAIN report[1] = {"no_data"}
          /\ ~report[1].no_data =>
                report[1].completed =
                    Cardinality({i \in DOMAIN result : result[i].end_time # None})
          /\ result = sorted_by_start_time(Values(upgrades))

C12_Witness ==
    /\ report = <<[no_data |-> TRUE]>>
    /\ Len(result) = 2
    /\ NoneCompleted(result)

\* ------------------------------------- lines matching several patterns
\* The parser states parse_line is called in, for at most one record per
\* gateway: started, inferred from an installing status, completed (in or out
\* of order), or created retroactively, in either insertion order, before or
\* after a reset line.
SampleRecords(g) ==
    { UpgradeEvent(g, t, None, <<"8.1">>, "in_progress") : t \in Times } \cup
    { UpgradeEvent(g, t, None, <<"(detected from installing status)">>,
                   "in_progress") : t \in Times } \cup
    { UpgradeEvent(g, t, e, <<"8.1", "->", "9.0">>, "complete") :
         t \in Times, e \in Times } \cup
    { UpgradeEvent(g, t, t, <<"(retroactive)", "->", "9.0">>, "complete") :
         t \in Times }
SampleDicts ==
    {<<>>} \cup
    { <<a>> : a \in SampleRecords("gw-1") \cup SampleRecords("gw-2") } \cup
    { <<a, b>> : a \in SampleRecords("gw-1"), b \in SampleRecords("gw-2") } \cup
    { <<b, a>> : a \in SampleRecords("gw-1"), b \in SampleRecords("gw-2") }

InitMulti ==
    /\ \E l \in SampleDicts :
         /\ upgrades = [i \in DOMAIN l |-> [key |-> l[i].gateway_name, value |-> l[i]]]
         /\ created = { l[i].gateway_name : i \in DOMAIN l }
         /\ first_added = [i \in DOMAIN l |-> l[i].gateway_name]
         /\ watermark = None
         /\ mutations = [i \in DOMAIN l |->
                IF l[i].end_time # None /\ l[i].version_info[1] # "(retroactive)"
                THEN 1 ELSE 0]
    /\ overall_start_time \in Times \cup {None}
    /\ last_branch = "none"
    /\ pc = "parse_logs"
    /\ result = <<>>
    /\ report = <<>>
    /\ stdout = <<>>
    /\ exit_code = None

Markers(l) ==
    (IF l.reset THEN 1 ELSE 0) + (IF l.start THEN 1 ELSE 0)
    + (IF l.installing THEN 1 ELSE 0) + (IF l.complete THEN 1 ELSE 0)
MultiLines == { l \in InputLines : l.head = "valid" /\ Markers(l) >= 2 }

NextMulti == \E line \in MultiLines : Ingest(line)

SpecMulti == InitMulti /\ [][NextMulti]_vars

\* the line with only its first marker in the order reset, start,
\* installing, completion, and that marker's captures
Dominant(l) ==
    IF l.reset
    THEN Line(l.head, l.ts, TRUE, FALSE, FALSE, FALSE, NoGateway, NoRest, NoVer)
    ELSE IF l.start
    THEN Line(l.head, l.ts, FALSE, TRUE, FALSE, FALSE, l.gateway, l.rest, NoVer)
    ELSE IF l.installing
    THEN Line(l.head, l.ts, FALSE, FALSE, TRUE, FALSE, l.gateway, NoRest, NoVer)
    ELSE l

\* C13: in every parser state, a timestamped line that matches several
\* marker patterns has exactly the effect of the line that carries only the
\* first of them in the order reset, start, installing, completion: with the
\* reset phrase the records are cleared and none is created, and with a start
\* marker and a status payload the record is the freshly started one.
C13_PriorityExclusive ==
    pc = "parse_logs" => \A line \in MultiLines :
        LET r == parse_line(upgrades, overall_start_time, line) IN
        /\ r = parse_line(upgrades, overall_start_time, Dominant(line))
        /\ line.reset =>
              /\ r.branch = "reset"
              /\ r.upgrades = <<>>
              /\ r.overall_start_time = line.ts
        /\ (~line.reset /\ line.start) =>
              /\ r.branch = "start"
              /\ r.overall_start_time = overall_start_time
              /\ Get(r.upgrades, line.gateway).end_time = None
              /\ Get(r.upgrades, line.gateway).status = "in_progress"
              /\ Get(r.upgrades, line.gateway).start_time = line.ts
        /\ (~line.reset /\ ~line.start) =>
              r.branch \in {"installing_new", "installing_seen"}

C13_Witness ==
    /\ last_branch = "reset"
    /\ upgrades = <<>>
    /\ created = {}
    /\ overall_start_time # None

\* v is raw without its leading and trailing spaces
Trimmed(raw, v) ==
    /\ v = <<>> \/ (v[1] # SP /\ v[Len(v)] # SP)
    /\ \E a \in 0..Len(raw) :
          /\ a + Len(v) <= Len(raw)
          /\ v = SubSeq(raw, a + 1, a + Len(v))
          /\ \A i \in 1..a : raw[i] = SP
          /\ \A i \in (a + Len(v) + 1)..Len(raw) : raw[i] = SP

\* the records of the other keys, and the order of the keys, are as before
OthersKept(r, g) ==
    /\ \A i \in DOMAIN upgrades :
          /\ i \in DOMAIN r.upgrades
          /\ r.upgrades[i].key = upgrades[i].key
          /\ upgrades[i].key # g => r.upgrades[i] = upgrades[i]
    /\ Keys(r.upgrades) = Keys(upgrades) \cup {g}
    /\ Len(r.upgrades) = Cardinality(Keys(r.upgrades))

\* C14: in every parser state, whether the unit has no record, an open one
\* or a complete one, a start line leaves under the unit's key the record
\* with start_time the line's timestamp, no end_time, status in_progress and
\* version_info the captured text without surrounding spaces; the other
\* records and overall_start_time are as before.
C14_StartLastWriteWins ==
    pc = "parse_logs" => \A line \in InputLines :
        OnlyStart(line) =>
            LET r == parse_line(upgrades, overall_start_time, line)
                u == Get(r.upgrades, line.gateway)
            IN /\ ~r.raised
               /\ Has(r.upgrades, line.gateway)
               /\ u.gateway_name = line.gateway
               /\ u.start_time = line.ts
               /\ u.end_time = None
               /\ u.status = "in_progress"
               /\ Trimmed(line.rest, u.version_info)
               /\ OthersKept(r, line.gateway)
               /\ r.overall_start_time = overall_start_time

C14_Witness ==
    /\ last_branch = "start"
    /\ Len(upgrades) = 2
    /\ \E i \in DOMAIN upgrades :
          /\ upgrades[i].value.status = "in_progress"
          /\ upgrades[i].value.end_time = None
          /\ upgrades[i].value.version_info = <<"8.1">>
          /\ upgrades[i].value.start_time = MaxTime
          /\ mutations[i] = 0

\* C15: in every parser state, an installing line for a unit without a
\* record appends the record with start_time the line's timestamp, no
\* end_time, status in_progress and the note "(detected from installing
\* status)"; for a unit with a record, open or complete, it leaves upgrades
\* and overall_start_time as they are.
C15_InstallingGuard ==
    pc = "parse_logs" => \A line \in InputLines :
        OnlyInstalling(line) =>
            LET r == parse_line(upgrades, overall_start_time, line) IN
            IF Has(upgrades, line.gateway)
            THEN SameParserState(r)
            ELSE /\ ~r.raised
                 /\ r.overall_start_time = overall_start_time
                 /\ r.upgrades =
                      Append(upgrades,
                             [key |-> line.gateway,
                              value |-> [gateway_name |-> line.gateway,
                                         start_time |-> line.ts,
                                         end_time |-> None,
                                         version_info |->
                                            <<"(detected from installing status)">>,
                                         status |-> "in_progress"]])

C15_Witness ==
    /\ last_branch = "installing_seen"
    /\ \E i \in DOMAIN upgrades :
          /\ upgrades[i].value.status = "in_progress"
          /\ upgrades[i].value.version_info = <<"8.1">>
    /\ \E i \in DOMAIN upgrades :
          upgrades[i].value.version_info = <<"(detected from installing status)">>

\* C16: in every parser state, a completion line for a unit whose record
\* exists and is not complete sets that record's end_time to the line's
\* timestamp and its status to complete and appends "->" and the completion
\* version to version_info; its start_time and gateway_name, the other
\* records, the order of the keys and overall_start_time are as before.
C16_CompletionOfOpenRecord ==
    pc = "parse_logs" => \A line \in InputLines :
        (/\ OnlyComplete(line)
         /\ Has(upgrades, line.gateway)
         /\ Get(upgrades, line.gateway).status # "complete") =>
            LET r == parse_line(upgrades, overall_start_time, line)
                old == Get(upgrades, line.gateway)
                new == Get(r.upgrades, line.gateway)
            IN /\ ~r.raised
               /\ new.end_time = line.ts
               /\ new.status = "complete"
               /\ new.version_info = old.version_info \o <<"->", line.curr_ver>>
               /\ new.start_time = old.start_time
               /\ new.gateway_name = old.gateway_name
               /\ OthersKept(r, line.gateway)
               /\ Keys(r.upgrades) = Keys(upgrades)
               /\ r.overall_start_time = overall_start_time

C16_Witness ==
    /\ last_branch = "complete_update"
    /\ \E i \in DOMAIN upgrades :
          /\ upgrades[i].value.status = "complete"
          /\ upgrades[i].value.start_time = 0
          /\ upgrades[i].value.end_time = MaxTime
          /\ upgrades[i].value.version_info = <<"8.1", "->", "9.0">>
          /\ mutations[i] = 1

\* C17: a run whose non-empty list has no record with an end_time ends with
\* the chart laid out over min_time = the least start_time and max_time =
\* min_time + 60 seconds, so that total_duration is 60, whether the
\* start times are all equal or differ.
C17_FallbackOneMinute ==
    (Ended /\ result # <<>> /\ NoneCompleted(result)) =>
        /\ pc = "exited"
        /\ Len(stdout) = 1
        /\ \A i \in DOMAIN result : stdout[1].min_time <= result[i].start_time
        /\ \E i \in DOMAIN result : stdout[1].min_time = result[i].start_time
        /\ stdout[1].max_time = stdout[1].min_time + 60 * TicksPerSecond
        /\ stdout[1].total_duration = FromInt(60)

\* C18: a step that is not the ingestion of a reset line keeps every key of
\* upgrades (start, installing, completion and skipped lines only add keys);
\* a step that loses a key is the ingestion of a reset line, and after a
\* reset line no key is left.
C18_OnlyResetRemoves ==
    [][ /\ last_branch' # "reset" => Keys(upgrades) \subseteq Keys(upgrades')
        /\ ~(Keys(upgrades) \subseteq Keys(upgrades')) => last_branch' = "reset"
        /\ last_branch' = "reset" => upgrades' = <<>> ]_vars

C18_Witness ==
    /\ last_branch = "no_timestamp"
    /\ Keys(upgrades) = Units
    /\ created = Units
    /\ \E i \in DOMAIN upgrades : upgrades[i].value.status = "complete"

\* C19: in the list parse_logs returns, two records with the same start_time
\* stand in the order in which their keys were first given a record since the
\* latest reset, also when one of the keys was started again since.
IndexOf(seq, k) == CHOOSE i \in DOMAIN seq : seq[i] = k
C19_TiesInInsertionOrder ==
    Returned => \A i \in DOMAIN result : \A j \in DOMAIN result :
        (i < j /\ result[i].start_time = result[j].start_time) =>
            /\ result[i].gateway_name \in created
            /\ result[j].gateway_name \in created
            /\ IndexOf(first_added, result[i].gateway_name)
                 < IndexOf(first_added, result[j].gateway_name)

C19_Witness ==
    /\ Returned
    /\ Len(result) = 2
    /\ result[1].start_time = result[2].start_time
    /\ first_added = <<"gw-2", "gw-1">>
    /\ result[1].gateway_name = "gw-2"
    /\ result[1].status = "in_progress"
    /\ result[2].status = "complete"

\* C20: in every chart printed, the bar of a record without an end_time has
\* the in_progress color and x + width = chart_width, and the bar of a record
\* with an end_time has the complete color, whatever the record's status
\* field, start_time and version_info are.
C20_OpenEndedBars ==
    stdout # <<>> =>
        LET scene == stdout[1] IN
        /\ Len(scene.bars) = Len(result)
        /\ \A i \in DOMAIN result :
              /\ scene.bars[i].gateway_name = result[i].gateway_name
              /\ IF result[i].end_time = None
                 THEN /\ scene.bars[i].color = "in_progress"
                      /\ RAdd(scene.bars[i].x, scene.bars[i].width)
                           = FromInt(scene.chart_width)
                 ELSE scene.bars[i].color = "complete"

C20_Witness ==
    /\ Len(stdout) = 1
    /\ Len(result) = 2
    /\ result[1].end_time # None
    /\ result[2].end_time = None
    /\ result[2].start_time > result[1].start_time
    /\ stdout[1].bars[1].color = "complete"
    /\ stdout[1].bars[2].color = "in_progress"
    /\ stdout[1].bars[2].x = FromInt(950)
    /\ stdout[1].bars[2].width = FromInt(0)

\* ----------------------------------------------- charts of many records
\* The list handed to calculate_upgrade_stats and generate_chart for 1 to
\* MaxRecords gateways "gw-1", "gw-2", ..., each started at tick 0 and
\* completed a minute later, the last one completed or still open.
MaxRecords == 40
GatewayName(i) == "gw-" \o ToString(i)
ManyRecords(n, last_open) ==
    [i \in 1..n |->
        IF i = n /\ last_open
        THEN UpgradeEvent(GatewayName(i), 0, None, <<"8.1">>, "in_progress")
        ELSE UpgradeEvent(GatewayName(i), 0, 60 * TicksPerSecond,
                          <<"8.1", "->", "9.0">>, "complete")]

InitLayout ==
    /\ \E n \in 1..MaxRecords : \E last_open \in BOOLEAN :
         LET l == ManyRecords(n, last_open) IN
         /\ result = l
         /\ upgrades = [i \in DOMAIN l |-> [key |-> l[i].gateway_name, value |-> l[i]]]
         /\ created = { l[i].gateway_name : i \in DOMAIN l }
         /\ first_added = [i \in DOMAIN l |-> l[i].gateway_name]
         /\ watermark = None
         /\ mutations = [i \in DOMAIN l |-> IF l[i].end_time # None THEN 1 ELSE 0]
    /\ overall_start_time = None
    /\ last_branch = "unmatched"
    /\ pc = "parsed"
    /\ report = <<>>
    /\ stdout = <<>>
    /\ exit_code = None

NextLayout == Summarize \/ Chart

SpecLayout == InitLayout /\ [][NextLayout]_vars

\* C21: in every chart laid out for n >= 1 records, the canvas height is at
\* least 800 and at least n * (20 + 2) plus the top and bottom margins, every
\* bar is between 20 and 25 high, the row step is at least the bar height
\* plus 2, each bar lies inside its own row, and the n rows fit in the chart
\* height.
C21_VerticalExtent ==
    stdout # <<>> =>
        LET scene == stdout[1]
            n == Len(result)
        IN /\ n >= 1
           /\ Len(scene.bars) = n
           /\ scene.height >= 800
           /\ scene.height >= n * (20 + 2) + margin_top + margin_bottom
           /\ scene.chart_height = scene.height - margin_top - margin_bottom
           /\ \A i \in 1..n :
                 /\ scene.bars[i].height >= 20
                 /\ scene.bars[i].height <= 25
                 /\ RLeq(RMul(FromInt(i - 1), scene.y_step), scene.bars[i].y)
                 /\ RLeq(RAdd(scene.bars[i].y, FromInt(scene.bars[i].height)),
                         RMul(FromInt(i), scene.y_step))
           /\ RLeq(FromInt(scene.bar_height + 2), scene.y_step)
           /\ RLeq(RMul(FromInt(n), scene.y_step), FromInt(scene.chart_height))

C21_Witness ==
    /\ Len(stdout) = 1
    /\ Len(result) = 26
    /\ stdout[1].height = 812
    /\ stdout[1].bar_height = 23
    /\ stdout[1].y_step = Rat(672, 26)

\* C22: in every reachable state, every record of the parser, and every
\* record of the returned list, has status complete exactly when it has an
\* end_time and status in_progress exactly when it has none, and the record
\* stored under a key has that key as its gateway_name.
Consistent(u) ==
    /\ (u.status = "complete") <=> (u.end_time # None)
    /\ (u.status = "in_progress") <=> (u.end_time = None)
C22_StatusMatchesEndTime ==
    /\ \A i \in DOMAIN upgrades :
          /\ Consistent(upgrades[i].value)
          /\ upgrades[i].value.gateway_name = upgrades[i].key
    /\ \A i \in DOMAIN result : Consistent(result[i])

C22_Witness ==
    /\ Len(upgrades) = 2
    /\ upgrades[1].value.status = "complete"
    /\ upgrades[1].value.end_time = upgrades[1].value.start_time
    /\ upgrades[1].value.version_info[1] = "(retroactive)"
    /\ upgrades[2].value.status = "in_progress"
    /\ upgrades[2].value.end_time = None
    /\ upgrades[2].value.version_info = <<"(detected from installing status)">>

\* C23: in every chart printed, the time span used for the mapping is
\* strictly positive and every bar has 0 <= x <= chart_width, width >= 0 and
\* x + width <= chart_width, also for an open record started after the
\* latest end_time and for a completion stamped before the start.
C23_BarsInsideChart ==
    stdout # <<>> =>
        LET scene == stdout[1]
            chart_width == FromInt(scene.chart_width)
        IN /\ RLess(FromInt(0), scene.total_duration)
           /\ \A i \in DOMAIN scene.bars :
                 /\ RLeq(FromInt(0), scene.bars[i].x)
                 /\ RLeq(scene.bars[i].x, chart_width)
                 /\ RLeq(FromInt(0), scene.bars[i].width)
                 /\ RLeq(RAdd(scene.bars[i].x, scene.bars[i].width), chart_width)

\* --------------------------------------------- streams in timestamp order
NextOrdered ==
    \/ \E line \in InputLines : IngestInOrder(line)
    \/ Finalize
    \/ ExitNoUpgrades
    \/ Summarize
    \/ Chart

SpecOrdered == Init /\ [][NextOrdered]_vars

\* C24: when the timestamps of the lines never decrease, every record starts
\* no later than the latest line, every complete record has start_time <=
\* end_time <= the latest timestamp, and start_time = end_time only for a
\* retroactive record or for a record whose completion line carried the
\* timestamp of its start; the same holds of the returned list.
IsRetroactive(u) == u.version_info[1] = "(retroactive)"
C24_OrderedDurationsNonNegative ==
    /\ \A i \in DOMAIN upgrades :
          LET u == upgrades[i].value IN
          /\ u.start_time <= watermark
          /\ u.status = "complete" =>
                /\ u.start_time <= u.end_time
                /\ u.end_time <= watermark
                /\ IsRetroactive(u) \/ mutations[i] = 1
                /\ IsRetroactive(u) => u.start_time = u.end_time
    /\ \A i \in DOMAIN result :
          result[i].status = "complete" => result[i].start_time <= result[i].end_time
    /\ pc = "parse_logs" => \A line \in InputLines :
          (OnlyComplete(line) /\ watermark <= line.ts) =>
              LET r == parse_line(upgrades, overall_start_time, line)
                  new == Get(r.upgrades, line.gateway)
              IN /\ new.status = "complete"
                 /\ new.start_time <= new.end_time
                 /\ (r.branch = "complete_update" /\ new.start_time = new.end_time)
                       => line.ts = Get(upgrades, line.gateway).start_time

C24_Witness ==
    /\ watermark = MaxTime
    /\ last_branch = "complete_update"
    /\ Len(upgrades) = 2
    /\ upgrades[1].value.status = "complete"
    /\ upgrades[1].value.start_time < upgrades[1].value.end_time
    /\ upgrades[2].value.status = "complete"
    /\ upgrades[2].value.start_time = upgrades[2].value.end_time
    /\ upgrades[2].value.version_info = <<"8.1", "->", "9.0">>

====
